---- MODULE Spec2Model ----
\* A model of src/mt5_bridge.py: the Flask handlers connect_mt5 and
\* shutdown_mt5 over the process-wide MetaTrader5 session, and the pure
\* function calculate_metrics over a pandas DataFrame of deals.
EXTENDS Integers, Sequences, FiniteSets, TLC

VARIABLES
    session,        \* the MetaTrader5 module's connection: "closed" or "open"
    sessionOwner,   \* the request whose mt5.initialize opened it (0: nobody)
    last_error,     \* what mt5.last_error() returns
    pc,             \* per request: the handler's position
    req,            \* per request: the route and the JSON body
    acct,           \* per request: the local account_info
    hist,           \* per request: the local history
    resp,           \* per request: the (body, status) the handler returned
    trace,          \* per request: the mt5 calls this handler has made
    arg_trades,     \* calculate_metrics called alone: its trades_df
    arg_account,    \* calculate_metrics called alone: its account_info
    result,         \* calculate_metrics called alone: what it returned
    returned        \* calculate_metrics called alone: has it returned

serverVars == <<session, sessionOwner, last_error, pc, req, acct, hist, resp, trace>>
metricsVars == <<arg_trades, arg_account, result, returned>>
vars == <<session, sessionOwner, last_error, pc, req, acct, hist, resp, trace,
          arg_trades, arg_account, result, returned>>

\* ---------------------------------------------------------------------
\* Bounds
\* ---------------------------------------------------------------------
\* the longest DataFrame calculate_metrics is called with
MaxDeals == 3
\* the requests the server handles at the same time
MaxRequests == 2

\* ---------------------------------------------------------------------
\* Program constants
\* ---------------------------------------------------------------------
ORDER_TYPE_BUY == 0
ORDER_TYPE_SELL == 1
\* bits of a Python float's significand
Precision == 53

\* ---------------------------------------------------------------------
\* Python float arithmetic (IEEE-754 binary64, round-to-nearest-even).
\* A natural number below 2^71 is held in three limbs of 20 bits; a float
\* is sgn * man * 2^(exp - 52) with 2^52 <= man < 2^53 (sgn = 0 for 0.0).
\* ---------------------------------------------------------------------
Limb == 2^20

BNorm(h, m, l) ==
    LET m1 == m + (l \div Limb)
    IN  [h |-> h + (m1 \div Limb), m |-> m1 % Limb, l |-> l % Limb]

BFromInt(n) == [h |-> 0, m |-> n \div Limb, l |-> n % Limb]

BIsZero(x) == x.h = 0 /\ x.m = 0 /\ x.l = 0

BLess(x, y) ==
    \/ x.h < y.h
    \/ x.h = y.h /\ x.m < y.m
    \/ x.h = y.h /\ x.m = y.m /\ x.l < y.l

BAdd(x, y) == BNorm(x.h + y.h, x.m + y.m, x.l + y.l)

\* x - y for x >= y
BSub(x, y) == BNorm(x.h - y.h - 1, x.m - y.m + Limb - 1, x.l - y.l + Limb)

BTimes(x, k) == BNorm(x.h * k, x.m * k, x.l * k)

BHalf(x) ==
    [h |-> x.h \div 2,
     m |-> (x.m + (x.h % 2) * Limb) \div 2,
     l |-> (x.l + (x.m % 2) * Limb) \div 2]

BOdd(x) == x.l % 2 = 1

RECURSIVE IntBits(_)
IntBits(n) == IF n = 0 THEN 0 ELSE 1 + IntBits(n \div 2)

BBits(x) ==
    IF x.h > 0 THEN 40 + IntBits(x.h)
    ELSE IF x.m > 0 THEN 20 + IntBits(x.m)
    ELSE IntBits(x.l)

RECURSIVE BShiftLeft(_, _)
BShiftLeft(x, k) == IF k = 0 \/ BIsZero(x) THEN x ELSE BShiftLeft(BTimes(x, 2), k - 1)

\* x shifted right by k bits, with the guard bit (the last bit shifted out)
\* and the sticky bit (any earlier bit shifted out, or the incoming sticky)
RECURSIVE BShiftRight(_, _, _, _)
BShiftRight(x, k, guard, sticky) ==
    IF k = 0 \/ (BIsZero(x) /\ ~guard /\ sticky) THEN [n |-> x, guard |-> guard, sticky |-> sticky]
    ELSE BShiftRight(BHalf(x), k - 1, BOdd(x), sticky \/ guard)

FZero == [sgn |-> 0, exp |-> 0, man |-> BFromInt(0)]

\* the float nearest to sgn * (n * 2^e), ties to even; `sticky` says that
\* the exact value lies strictly above n * 2^e (and below (n + 1) * 2^e)
FRound(sgn, n, e, sticky) ==
    LET len == BBits(n) IN
    IF len = 0 \/ sgn = 0 THEN FZero
    ELSE IF len <= Precision
    THEN [sgn |-> sgn, exp |-> e + len - 1, man |-> BShiftLeft(n, Precision - len)]
    ELSE LET cut == BShiftRight(n, len - Precision, FALSE, sticky)
             up  == cut.guard /\ (cut.sticky \/ BOdd(cut.n))
             r   == IF up THEN BAdd(cut.n, BFromInt(1)) ELSE cut.n
         IN  IF BBits(r) > Precision
             THEN [sgn |-> sgn, exp |-> e + len, man |-> BHalf(r)]
             ELSE [sgn |-> sgn, exp |-> e + len - 1, man |-> r]

Sign(n) == IF n > 0 THEN 1 ELSE IF n < 0 THEN -1 ELSE 0
Abs(n) == IF n < 0 THEN -n ELSE n

\* float(n) for an integer n (exact below 2^31)
FFromInt(n) == FRound(Sign(n), BFromInt(Abs(n)), 0, FALSE)

\* long division of the significands: st.steps more quotient bits
RECURSIVE FDivLoop(_, _)
FDivLoop(st, d) ==
    IF st.steps = 0 THEN st
    ELSE LET ge == ~BLess(st.r, d)
             r1 == IF ge THEN BSub(st.r, d) ELSE st.r
         IN  FDivLoop([r |-> BTimes(r1, 2),
                       q |-> BAdd(BTimes(st.q, 2), BFromInt(IF ge THEN 1 ELSE 0)),
                       steps |-> st.steps - 1], d)

\* x / y for y # 0
FDiv(x, y) ==
    IF x.sgn = 0 THEN FZero
    ELSE LET res == FDivLoop([r |-> x.man, q |-> BFromInt(0), steps |-> Precision + 3],
                             y.man)
         IN  FRound(x.sgn * y.sgn, res.q, x.exp - y.exp - (Precision + 2),
                    ~BIsZero(res.r))

\* x * k for a small positive integer k (k as a float is exact)
FTimes(x, k) == FRound(x.sgn, BTimes(x.man, k), x.exp - (Precision - 1), FALSE)

FAbs(x) == [x EXCEPT !.sgn = Abs(x.sgn)]

\* ---------------------------------------------------------------------
\* Strings, as sequences of characters
\* ---------------------------------------------------------------------
Digits == <<"0", "1", "2", "3", "4", "5", "6", "7", "8", "9">>

\* "%d" % n for n >= 0
RECURSIVE Dec(_)
Dec(n) == IF n < 10 THEN <<Digits[n + 1]>> ELSE Append(Dec(n \div 10), Digits[(n % 10) + 1])

\* "%0<width>d" % n for n >= 0
RECURSIVE ZeroPad(_, _)
ZeroPad(n, width) ==
    LET s == Dec(n) IN
    IF Len(s) >= width THEN s ELSE <<"0">> \o ZeroPad(n, width - 1)

\* s.split(sep)[0]: the characters before the first sep
RECURSIVE SplitFirst(_, _)
SplitFirst(s, sep) ==
    IF s = <<>> \/ Head(s) = sep THEN <<>>
    ELSE <<Head(s)>> \o SplitFirst(Tail(s), sep)

\* the string of a sequence of characters
RECURSIVE Join(_)
Join(s) == IF s = <<>> THEN "" ELSE Head(s) \o Join(Tail(s))

\* ---------------------------------------------------------------------
\* datetime.timedelta
\* ---------------------------------------------------------------------
\* round(a / b) for a >= 0, b > 0, ties to even
RoundHalfEven(a, b) ==
    LET q == a \div b
        twice == 2 * (a % b)
    IN  IF twice > b \/ (twice = b /\ q % 2 = 1) THEN q + 1 ELSE q

\* timedelta(seconds = num / den) for num >= 0, den > 0: whole seconds and
\* the fraction rounded to microseconds, normalised to days, seconds and
\* microseconds.  (The float num / den is within 2^-53 of the quotient, far
\* below the half microsecond that decides the rounding.)
timedelta(num, den) ==
    LET us   == RoundHalfEven((num % den) * 1000000, den)
        secs == (num \div den) + (us \div 1000000)
    IN  [days |-> secs \div 86400,
         seconds |-> secs % 86400,
         microseconds |-> us % 1000000]

\* str(td) for a timedelta td >= 0
TimedeltaStr(td) ==
    LET mm0 == td.seconds \div 60
        ss  == td.seconds % 60
        hh  == mm0 \div 60
        mm  == mm0 % 60
        hms == Dec(hh) \o <<":">> \o ZeroPad(mm, 2) \o <<":">> \o ZeroPad(ss, 2)
        day == IF td.days = 0 THEN <<>>
               ELSE Dec(td.days) \o <<" ", "d", "a", "y">>
                    \o (IF td.days # 1 THEN <<"s">> ELSE <<>>) \o <<",", " ">>
        us  == IF td.microseconds = 0 THEN <<>>
               ELSE <<".">> \o ZeroPad(td.microseconds, 6)
    IN  day \o hms \o us

\* ---------------------------------------------------------------------
\* pandas: a DataFrame is the sequence of its rows; every row of one
\* DataFrame has the same columns (the fields of the record).  A cell of a
\* time column is <<t>>, or <<>> for NaN (the row has no value there).
\* ---------------------------------------------------------------------
NaN == <<>>
IsNaN(cell) == cell = NaN

empty(trades_df) == Len(trades_df) = 0

\* hasattr(trade, column) for a row of DataFrame.itertuples()
hasattr(trade, column) == column \in DOMAIN trade

RECURSIVE SumProfit(_)
SumProfit(rows) == IF rows = <<>> THEN 0 ELSE Head(rows).profit + SumProfit(Tail(rows))

RECURSIVE SumVolume(_)
SumVolume(rows) == IF rows = <<>> THEN 0 ELSE Head(rows).volume + SumVolume(Tail(rows))

RECURSIVE MaxProfit(_)
MaxProfit(rows) ==
    IF Len(rows) = 1 THEN rows[1].profit
    ELSE LET rest == MaxProfit(Tail(rows))
         IN  IF rows[1].profit > rest THEN rows[1].profit ELSE rest

RECURSIVE MinProfit(_)
MinProfit(rows) ==
    IF Len(rows) = 1 THEN rows[1].profit
    ELSE LET rest == MinProfit(Tail(rows))
         IN  IF rows[1].profit < rest THEN rows[1].profit ELSE rest

\* Series.mean(): the sum over the count, as floats
MeanProfit(rows) == FDiv(FFromInt(SumProfit(rows)), FFromInt(Len(rows)))

\* count / total * 100
Percent(count, total) == FTimes(FDiv(FFromInt(count), FFromInt(total)), 100)

\* ---------------------------------------------------------------------
\* calculate_metrics
\* ---------------------------------------------------------------------
\* a slip: a break-even deal counted as a win
IsNotLosing(trade) == trade.profit >= 0

IsProfitable(trade) == trade.profit > 0
IsLosing(trade) == trade.profit < 0

profitable_trades(trades_df) == SelectSeq(trades_df, IsProfitable)
losing_trades(trades_df) == SelectSeq(trades_df, IsLosing)

total_trades(trades_df) == Len(trades_df)

lots(trades_df) ==
    IF ~empty(trades_df) THEN FFromInt(SumVolume(trades_df)) ELSE FZero

win_rate(trades_df) ==
    IF total_trades(trades_df) > 0
    THEN Percent(Len(profitable_trades(trades_df)), total_trades(trades_df))
    ELSE FZero

loss_rate(trades_df) ==
    IF total_trades(trades_df) > 0
    THEN Percent(Len(losing_trades(trades_df)), total_trades(trades_df))
    ELSE FZero

gross_profit(trades_df) == SumProfit(profitable_trades(trades_df))
gross_loss(trades_df) == Abs(SumProfit(losing_trades(trades_df)))

profit_factor(trades_df) ==
    IF gross_loss(trades_df) > 0
    THEN FDiv(FFromInt(gross_profit(trades_df)), FFromInt(gross_loss(trades_df)))
    ELSE FZero

best_trade(trades_df) ==
    IF ~empty(profitable_trades(trades_df))
    THEN FFromInt(MaxProfit(profitable_trades(trades_df))) ELSE FZero

worst_trade(trades_df) ==
    IF ~empty(losing_trades(trades_df))
    THEN FFromInt(MinProfit(losing_trades(trades_df))) ELSE FZero

IsLong(trade) == trade.entry = ORDER_TYPE_BUY
IsShort(trade) == trade.entry = ORDER_TYPE_SELL

long_trades(trades_df) == SelectSeq(trades_df, IsLong)
short_trades(trades_df) == SelectSeq(trades_df, IsShort)

long_won(trades_df) ==
    IF Len(long_trades(trades_df)) > 0
    THEN Percent(Len(SelectSeq(long_trades(trades_df), IsProfitable)),
                 Len(long_trades(trades_df)))
    ELSE FZero

short_won(trades_df) ==
    IF Len(short_trades(trades_df)) > 0
    THEN Percent(Len(SelectSeq(short_trades(trades_df), IsProfitable)),
                 Len(short_trades(trades_df)))
    ELSE FZero

HasBothTimes(trade) == hasattr(trade, "time_update") /\ hasattr(trade, "time_setup")

\* trade.time_update - trade.time_setup: NaN when either cell is NaN
Duration(trade) ==
    IF IsNaN(trade.time_update) \/ IsNaN(trade.time_setup) THEN NaN
    ELSE <<trade.time_update[1] - trade.time_setup[1]>>

trade_durations(trades_df) ==
    LET timed == SelectSeq(trades_df, HasBothTimes)
    IN  [i \in 1..Len(timed) |-> Duration(timed[i])]

\* sum(durations): NaN as soon as one duration is NaN
RECURSIVE SumDurations(_)
SumDurations(durations) ==
    IF durations = <<>> THEN <<0>>
    ELSE LET rest == SumDurations(Tail(durations))
         IN  IF IsNaN(Head(durations)) \/ IsNaN(rest) THEN NaN
             ELSE <<Head(durations)[1] + rest[1]>>

\* the mean duration as the quotient num / den, or NaN
avg_duration_seconds(trades_df) ==
    LET durations == trade_durations(trades_df)
        total     == SumDurations(durations)
    IN  IF durations = <<>> THEN [nan |-> FALSE, num |-> 0, den |-> 1]
        ELSE IF IsNaN(total) THEN [nan |-> TRUE, num |-> 0, den |-> 1]
        ELSE [nan |-> FALSE, num |-> total[1], den |-> Len(durations)]

\* NaN > 0 is False
avg_duration_hours(trades_df) ==
    LET avg == avg_duration_seconds(trades_df)
    IN  IF ~avg.nan /\ avg.num > 0
        THEN Join(SplitFirst(TimedeltaStr(timedelta(avg.num, avg.den)), "."))
        ELSE "0h"

avg_profit_per_trade(trades_df) ==
    IF ~empty(profitable_trades(trades_df))
    THEN MeanProfit(profitable_trades(trades_df)) ELSE FZero

avg_loss_per_trade(trades_df) ==
    IF ~empty(losing_trades(trades_df))
    THEN MeanProfit(losing_trades(trades_df)) ELSE FZero

avg_rrr(trades_df) ==
    IF avg_loss_per_trade(trades_df).sgn # 0
    THEN FDiv(FAbs(avg_profit_per_trade(trades_df)), FAbs(avg_loss_per_trade(trades_df)))
    ELSE FZero

Metric(name, value, isCustom) == [name |-> name, value |-> value, isCustom |-> isCustom]

\* account_info.profit / account_info.balance * 100, guarded
CustomROI(account_info) ==
    Metric("Custom ROI",
           IF account_info.balance > 0
           THEN Percent(account_info.profit, account_info.balance) ELSE FZero,
           TRUE)

EquityToBalanceRatio(account_info) ==
    Metric("Equity to Balance Ratio",
           IF account_info.balance > 0
           THEN Percent(account_info.equity, account_info.balance) ELSE FZero,
           TRUE)

MarginLevel(account_info) ==
    Metric("Margin Level",
           IF account_info.margin_level > 0
           THEN FFromInt(account_info.margin_level) ELSE FZero,
           TRUE)

\* 'default' of the trades_df.empty branch
EmptyDefault ==
    << Metric("Lots", FZero, FALSE),
       Metric("Avg. RRR", FZero, FALSE),
       Metric("Win Rate", FZero, FALSE),
       Metric("Loss Rate", FZero, FALSE),
       Metric("Profit Factor", FZero, FALSE),
       Metric("Best Trade", FZero, FALSE),
       Metric("Worst Trade", FZero, FALSE),
       Metric("Long Won", FZero, FALSE),
       Metric("Short Won", FZero, FALSE),
       Metric("Gross Profit", FZero, FALSE),
       Metric("Gross Loss", FZero, FALSE),
       Metric("Average Trade Duration", "0h", FALSE),
       Metric("Average Profit per Trade", FZero, FALSE),
       Metric("Average Loss per Trade", FZero, FALSE) >>

\* a slip: the empty branch returning the custom list of the general branch
EmptyCustomAllThree(account_info) ==
    << CustomROI(account_info),
       EquityToBalanceRatio(account_info),
       MarginLevel(account_info) >>

\* 'custom' of the trades_df.empty branch
EmptyCustom(account_info) == << CustomROI(account_info) >>

\* 'default' of the general branch
TradeDefault(trades_df) ==
    << Metric("Lots", lots(trades_df), FALSE),
       Metric("Avg. RRR", avg_rrr(trades_df), FALSE),
       Metric("Win Rate", win_rate(trades_df), FALSE),
       Metric("Loss Rate", loss_rate(trades_df), FALSE),
       Metric("Profit Factor", profit_factor(trades_df), FALSE),
       Metric("Best Trade", best_trade(trades_df), FALSE),
       Metric("Worst Trade", worst_trade(trades_df), FALSE),
       Metric("Long Won", long_won(trades_df), FALSE),
       Metric("Short Won", short_won(trades_df), FALSE),
       Metric("Gross Profit", FFromInt(gross_profit(trades_df)), FALSE),
       Metric("Gross Loss", FFromInt(gross_loss(trades_df)), FALSE),
       Metric("Average Trade Duration", avg_duration_hours(trades_df), FALSE),
       Metric("Average Profit per Trade", avg_profit_per_trade(trades_df), FALSE),
       Metric("Average Loss per Trade", avg_loss_per_trade(trades_df), FALSE) >>

\* a slip: the account ratios listed in another order
TradeCustomReordered(account_info) ==
    << CustomROI(account_info),
       MarginLevel(account_info),
       EquityToBalanceRatio(account_info) >>

\* 'custom' of the general branch
TradeCustom(account_info) ==
    << CustomROI(account_info),
       EquityToBalanceRatio(account_info),
       MarginLevel(account_info) >>

calculate_metrics(trades_df, account_info) ==
    IF empty(trades_df)
    THEN [default |-> EmptyDefault, custom |-> EmptyCustom(account_info)]
    ELSE [default |-> TradeDefault(trades_df), custom |-> TradeCustom(account_info)]

\* ---------------------------------------------------------------------
\* The inputs calculate_metrics is called with
\* ---------------------------------------------------------------------
\* rows of a DataFrame without time columns: a win, a loss, a break-even
\* deal whose entry is neither BUY nor SELL
DealsPlain ==
    { [profit |-> 100, volume |-> 1, entry |-> ORDER_TYPE_BUY],
      [profit |-> -50, volume |-> 2, entry |-> ORDER_TYPE_SELL],
      [profit |-> 0,   volume |-> 1, entry |-> 2] }

\* rows of a DataFrame with both time columns: durations of 5400 s, of
\* 259200 s (three days), of -5399 s, and a row without time_setup
DealsTimed ==
    { [profit |-> 100, volume |-> 1, entry |-> ORDER_TYPE_BUY,
       time_setup |-> <<0>>, time_update |-> <<5400>>],
      [profit |-> -50, volume |-> 2, entry |-> ORDER_TYPE_SELL,
       time_setup |-> <<0>>, time_update |-> <<259200>>],
      [profit |-> 0,   volume |-> 1, entry |-> 2,
       time_setup |-> <<5400>>, time_update |-> <<1>>],
      [profit |-> -50, volume |-> 1, entry |-> ORDER_TYPE_BUY,
       time_setup |-> NaN, time_update |-> <<5400>>] }

Frames(rows, n) == UNION { [1..k -> rows] : k \in 0..n }

TradeFrames == Frames(DealsPlain, MaxDeals) \cup Frames(DealsTimed, MaxDeals)

Accounts ==
    { [balance |-> 1000, equity |-> 1050, profit |-> 50, margin_level |-> 200],
      [balance |-> 0,    equity |-> 0,    profit |-> 0,  margin_level |-> 0],
      [balance |-> -100, equity |-> -40,  profit |-> 60, margin_level |-> 0] }

NoMetrics == [default |-> <<>>, custom |-> <<>>]

\* ---------------------------------------------------------------------
\* The HTTP server: requests, the terminal, responses
\* ---------------------------------------------------------------------
Requests == 1..MaxRequests

\* request.json of POST /connect: a dict; a missing key is a missing field
Bodies ==
    { [login |-> 1001, password |-> "secret", server |-> "Broker-Demo"],
      [login |-> 1001, password |-> "secret", server |-> "Broker-Demo",
       path |-> "D:\\mt5\\terminal64.exe"],
      [login |-> 0, password |-> "secret", server |-> "Broker-Demo"],
      [password |-> "secret", server |-> "Broker-Demo"],
      [login |-> 1001, server |-> "Broker-Demo"],
      [login |-> 1001, password |-> "secret"] }

NoRequest == [route |-> "none"]
Incoming ==
    { [route |-> "/connect", json |-> b] : b \in Bodies } \cup { [route |-> "/shutdown"] }

NoAccount == [none |-> TRUE]
NoHistory == [fetched |-> FALSE]
HistoryNone == [fetched |-> TRUE, none |-> TRUE]
HistoryOf(deals) == [fetched |-> TRUE, none |-> FALSE, deals |-> deals]

\* what mt5.history_deals_get returns on an open session: None, or a tuple of
\* deals (empty when the window holds no deal)
Histories ==
    { HistoryNone } \cup
    { HistoryOf(deals) : deals \in
        { <<>>,
          << [profit |-> 100, volume |-> 1, entry |-> ORDER_TYPE_BUY],
             [profit |-> -50, volume |-> 2, entry |-> ORDER_TYPE_SELL] >> } }

\* what mt5.account_info() returns on an open session, when not None
ServerAccounts == { a \in Accounts : a.balance >= 0 }

\* mt5.last_error(): a (code, description) tuple
Success == <<1, "Success">>
NoConnection == <<-10004, "No IPC connection">>
InitErrors == { <<-6, "Terminal: Authorization failed">>, <<-10005, "IPC timeout">> }

IntStr(n) == IF n < 0 THEN "-" \o Join(Dec(-n)) ELSE Join(Dec(n))

\* str(error) of a (code, description) tuple
StrOfError(error) == "(" \o IntStr(error[1]) \o ", '" \o error[2] \o "')"

\* dict.get(key) is None
Missing(data, key) == key \notin DOMAIN data

\* all([login, password, server]): every one is truthy
AllCredentials(data) ==
    /\ data.login # 0
    /\ ~Missing(data, "password") /\ data.password # ""
    /\ ~Missing(data, "server") /\ data.server # ""

\* jsonify(body), status
Response(body, status) == [status |-> status, body |-> body]
NoResponse == [status |-> 0]
\* what Flask answers when the view function raises
ServerError(exception) == [status |-> 500, exception |-> exception]

Called(r, call) == trace' = [trace EXCEPT ![r] = Append(@, call)]

\* a request arrives and a server thread takes it
Receive(r) ==
    /\ pc[r] = "idle"
    /\ \E incoming \in Incoming : req' = [req EXCEPT ![r] = incoming]
    /\ pc' = [pc EXCEPT ![r] = "start"]
    /\ UNCHANGED <<session, sessionOwner, last_error, acct, hist, resp, trace>>
    /\ UNCHANGED metricsVars

\* connect_mt5: read the body, check the credentials
ConnectValidate(r) ==
    /\ pc[r] = "start"
    /\ req[r].route = "/connect"
    /\ LET data == req[r].json IN
       IF Missing(data, "login")
       THEN \* int(None)
            /\ resp' = [resp EXCEPT ![r] = ServerError("TypeError")]
            /\ pc' = [pc EXCEPT ![r] = "done"]
       ELSE IF ~AllCredentials(data)
       THEN /\ resp' = [resp EXCEPT ![r] =
                    Response([success |-> FALSE,
                              error |-> "Missing required credentials"], 400)]
            /\ pc' = [pc EXCEPT ![r] = "done"]
       ELSE /\ resp' = resp
            /\ pc' = [pc EXCEPT ![r] = "shutdown_prior"]
    /\ UNCHANGED <<session, sessionOwner, last_error, req, acct, hist, trace>>
    /\ UNCHANGED metricsVars

\* connect_mt5: mt5.shutdown() of any existing connection
ConnectShutdownPrior(r) ==
    /\ pc[r] = "shutdown_prior"
    /\ session' = "closed"
    /\ sessionOwner' = 0
    /\ Called(r, [call |-> "shutdown"])
    /\ pc' = [pc EXCEPT ![r] = "initialize"]
    /\ UNCHANGED <<last_error, req, acct, hist, resp>>
    /\ UNCHANGED metricsVars

\* connect_mt5: mt5.initialize(...), which the terminal accepts or refuses
ConnectInitialize(r) ==
    /\ pc[r] = "initialize"
    /\ \/ /\ session' = "open"
          /\ sessionOwner' = r
          /\ last_error' = Success
          /\ Called(r, [call |-> "initialize", ok |-> TRUE])
          /\ pc' = [pc EXCEPT ![r] = "account_info"]
       \/ /\ session' = "closed"
          /\ sessionOwner' = 0
          /\ last_error' \in InitErrors
          /\ Called(r, [call |-> "initialize", ok |-> FALSE])
          /\ pc' = [pc EXCEPT ![r] = "init_failed"]
    /\ UNCHANGED <<req, acct, hist, resp>>
    /\ UNCHANGED metricsVars

\* connect_mt5: initialize failed; answer 400 with mt5.last_error()
ConnectInitFailed(r) ==
    /\ pc[r] = "init_failed"
    /\ Called(r, [call |-> "last_error", error |-> last_error])
    /\ resp' = [resp EXCEPT ![r] =
            Response([success |-> FALSE, error |-> StrOfError(last_error)], 400)]
    /\ pc' = [pc EXCEPT ![r] = "done"]
    /\ UNCHANGED <<session, sessionOwner, last_error, req, acct, hist>>
    /\ UNCHANGED metricsVars

\* connect_mt5: mt5.account_info(), None when the terminal has no answer
ConnectAccountInfo(r) ==
    /\ pc[r] = "account_info"
    /\ \/ /\ session = "open"
          /\ \E account_info \in ServerAccounts :
                acct' = [acct EXCEPT ![r] = account_info]
          /\ last_error' = Success
          /\ Called(r, [call |-> "account_info", ok |-> TRUE])
          /\ pc' = [pc EXCEPT ![r] = "history"]
       \/ /\ acct' = acct
          /\ last_error' = NoConnection
          /\ Called(r, [call |-> "account_info", ok |-> FALSE])
          /\ pc' = [pc EXCEPT ![r] = "account_failed"]
    /\ UNCHANGED <<session, sessionOwner, req, hist, resp>>
    /\ UNCHANGED metricsVars

\* connect_mt5: no account info; mt5.last_error(), mt5.shutdown(), answer 400
ConnectAccountFailed(r) ==
    /\ pc[r] = "account_failed"
    /\ trace' = [trace EXCEPT ![r] =
            @ \o << [call |-> "last_error", error |-> last_error],
                    [call |-> "shutdown"] >>]
    /\ session' = "closed"
    /\ sessionOwner' = 0
    /\ resp' = [resp EXCEPT ![r] =
            Response([success |-> FALSE, error |-> StrOfError(last_error)], 400)]
    /\ pc' = [pc EXCEPT ![r] = "done"]
    /\ UNCHANGED <<last_error, req, acct, hist>>
    /\ UNCHANGED metricsVars

\* connect_mt5: mt5.history_deals_get(now - 30 days, now)
ConnectHistory(r) ==
    /\ pc[r] = "history"
    /\ \/ /\ session = "open"
          /\ \E history \in Histories : hist' = [hist EXCEPT ![r] = history]
          /\ last_error' = Success
       \/ /\ session = "closed"
          /\ hist' = [hist EXCEPT ![r] = HistoryNone]
          /\ last_error' = NoConnection
    /\ Called(r, [call |-> "history_deals_get"])
    /\ pc' = [pc EXCEPT ![r] = "build"]
    /\ UNCHANGED <<session, sessionOwner, req, acct, resp>>
    /\ UNCHANGED metricsVars

\* connect_mt5: build trades_df, calculate the metrics, mt5.shutdown(),
\* answer 200; history[0] of an empty tuple raises IndexError
ConnectMetrics(r) ==
    /\ pc[r] = "build"
    /\ IF ~hist[r].none /\ hist[r].deals = <<>>
       THEN /\ resp' = [resp EXCEPT ![r] = ServerError("IndexError")]
            /\ UNCHANGED <<session, sessionOwner, trace>>
       ELSE LET trades_df == IF hist[r].none THEN <<>> ELSE hist[r].deals
                metrics   == calculate_metrics(trades_df, acct[r])
            IN  /\ Called(r, [call |-> "shutdown"])
                /\ session' = "closed"
                /\ sessionOwner' = 0
                /\ resp' = [resp EXCEPT ![r] =
                        Response([success |-> TRUE, metrics |-> metrics], 200)]
    /\ pc' = [pc EXCEPT ![r] = "done"]
    /\ UNCHANGED <<last_error, req, acct, hist>>
    /\ UNCHANGED metricsVars

\* shutdown_mt5: mt5.shutdown(), answer 200
ShutdownMt5(r) ==
    /\ pc[r] = "start"
    /\ req[r].route = "/shutdown"
    /\ Called(r, [call |-> "shutdown"])
    /\ session' = "closed"
    /\ sessionOwner' = 0
    /\ resp' = [resp EXCEPT ![r] = Response([success |-> TRUE], 200)]
    /\ pc' = [pc EXCEPT ![r] = "done"]
    /\ UNCHANGED <<last_error, req, acct, hist>>
    /\ UNCHANGED metricsVars

\* the response is sent and the thread is free for the next request
Respond(r) ==
    /\ pc[r] = "done"
    /\ pc' = [pc EXCEPT ![r] = "idle"]
    /\ req' = [req EXCEPT ![r] = NoRequest]
    /\ acct' = [acct EXCEPT ![r] = NoAccount]
    /\ hist' = [hist EXCEPT ![r] = NoHistory]
    /\ resp' = [resp EXCEPT ![r] = NoResponse]
    /\ trace' = [trace EXCEPT ![r] = <<>>]
    /\ UNCHANGED <<session, sessionOwner, last_error>>
    /\ UNCHANGED metricsVars

ServerInit ==
    /\ session = "closed"
    /\ sessionOwner = 0
    /\ last_error = Success
    /\ pc = [r \in Requests |-> "idle"]
    /\ req = [r \in Requests |-> NoRequest]
    /\ acct = [r \in Requests |-> NoAccount]
    /\ hist = [r \in Requests |-> NoHistory]
    /\ resp = [r \in Requests |-> NoResponse]
    /\ trace = [r \in Requests |-> <<>>]

MetricsIdle ==
    /\ arg_trades = <<>>
    /\ arg_account = [balance |-> 0, equity |-> 0, profit |-> 0, margin_level |-> 0]
    /\ result = NoMetrics
    /\ returned = FALSE

Init == ServerInit /\ MetricsIdle

Next ==
    \E r \in Requests :
        \/ Receive(r)
        \/ ConnectValidate(r)
        \/ ConnectShutdownPrior(r)
        \/ ConnectInitialize(r)
        \/ ConnectInitFailed(r)
        \/ ConnectAccountInfo(r)
        \/ ConnectAccountFailed(r)
        \/ ConnectHistory(r)
        \/ ConnectMetrics(r)
        \/ ShutdownMt5(r)
        \/ Respond(r)

\* the server: Flask's app.run serves each request on a thread of its own
Spec == Init /\ [][Next]_vars

\* ---------------------------------------------------------------------
\* calculate_metrics called alone, on every input within the bounds
\* ---------------------------------------------------------------------
MetricsInit ==
    /\ ServerInit
    /\ arg_trades \in TradeFrames
    /\ arg_account \in Accounts
    /\ result = NoMetrics
    /\ returned = FALSE

CalculateMetrics ==
    /\ ~returned
    /\ result' = calculate_metrics(arg_trades, arg_account)
    /\ returned' = TRUE
    /\ UNCHANGED <<arg_trades, arg_account>>
    /\ UNCHANGED serverVars

MetricsNext == CalculateMetrics

SpecMetrics == MetricsInit /\ [][MetricsNext]_vars


\* ---------------------------------------------------------------------
\* Properties
\* ---------------------------------------------------------------------
DefaultNames ==
    << "Lots", "Avg. RRR", "Win Rate", "Loss Rate", "Profit Factor", "Best Trade",
       "Worst Trade", "Long Won", "Short Won", "Gross Profit", "Gross Loss",
       "Average Trade Duration", "Average Profit per Trade", "Average Loss per Trade" >>

NamesOf(metrics) == [i \in 1..Len(metrics) |-> metrics[i].name]

\* the metrics of the empty-input path for an account
IsEmptyInputMetrics(metrics, account) ==
    /\ NamesOf(metrics.default) = DefaultNames
    /\ \A i \in 1..Len(DefaultNames) :
          metrics.default[i].value =
              IF DefaultNames[i] = "Average Trade Duration" THEN "0h" ELSE FZero
    /\ NamesOf(metrics.custom) = <<"Custom ROI">>
    /\ metrics.custom[1].value =
          IF account.balance <= 0 THEN FZero
          ELSE Percent(account.profit, account.balance)

HasCall(r, call) == \E i \in 1..Len(trace[r]) : trace[r][i] = call

\* C1: every /connect request whose mt5.initialize succeeded has called
\* mt5.shutdown afterwards by the time the handler finishes, on every path.
C1_ConnectAlwaysDisconnects ==
    \A r \in Requests :
        pc[r] = "done" =>
            \A i \in 1..Len(trace[r]) :
                trace[r][i] = [call |-> "initialize", ok |-> TRUE] =>
                    \E j \in (i + 1)..Len(trace[r]) : trace[r][j] = [call |-> "shutdown"]

\* C2: a /connect request whose body lacks login, password or server is
\* answered 400 "Missing required credentials" and makes no mt5 call.
C2_MissingCredentialRejected ==
    \A r \in Requests :
        ( /\ pc[r] = "done"
          /\ req[r].route = "/connect"
          /\ \E key \in {"login", "password", "server"} : Missing(req[r].json, key) )
        => /\ resp[r] = Response([success |-> FALSE,
                                  error |-> "Missing required credentials"], 400)
           /\ trace[r] = <<>>

\* C3: when the deal query yields no deals, None or an empty tuple, /connect
\* answers 200 with the metrics of the empty-input path.
C3_AbsentHistoryIsEmptyRecordSet ==
    \A r \in Requests :
        ( /\ pc[r] = "done"
          /\ hist[r].fetched
          /\ (hist[r].none \/ hist[r].deals = <<>>) )
        => /\ resp[r].status = 200
           /\ resp[r].body.success
           /\ IsEmptyInputMetrics(resp[r].body.metrics, acct[r])

\* C4: a request reads the account and the deals only through the session
\* it opened itself: no other request has shut it down or re-initialised it.
C4_SessionNotShared ==
    \A r \in Requests :
        pc[r] \in {"account_info", "history"} => sessionOwner = r

\* C5: a gateway error (initialize refused, or no account info) is answered
\* 400 with str(mt5.last_error()), without metrics, and the session is
\* closed when the response is returned.
C5_GatewayErrorAnswered ==
    [][\A r \in Requests :
        ( /\ pc[r] # "done"
          /\ pc'[r] = "done"
          /\ \/ HasCall(r, [call |-> "initialize", ok |-> FALSE])
             \/ HasCall(r, [call |-> "account_info", ok |-> FALSE]) )
        => /\ resp'[r] = Response([success |-> FALSE,
                                   error |-> StrOfError(last_error)], 400)
           /\ session' = "closed"]_vars

\* the value of Average Trade Duration
DurationOf(metrics) == metrics.default[12].value

HasTimestamps(trade) ==
    /\ HasBothTimes(trade)
    /\ ~IsNaN(trade.time_update)
    /\ ~IsNaN(trade.time_setup)

RECURSIVE TotalSeconds(_)
TotalSeconds(rows) ==
    IF rows = <<>> THEN 0
    ELSE (Head(rows).time_update[1] - Head(rows).time_setup[1]) + TotalSeconds(Tail(rows))

\* H:MM:SS of d seconds, the hours unbounded
HoursMinutesSeconds(d) ==
    Join(Dec(d \div 3600) \o <<":">> \o ZeroPad((d % 3600) \div 60, 2)
         \o <<":">> \o ZeroPad(d % 60, 2))

\* C6: for records that all have both timestamps and a mean duration d > 0,
\* Average Trade Duration is H:MM:SS with H = d div 3600, unbounded.
C6_DurationIsHoursMinutesSeconds ==
    ( /\ returned
      /\ arg_trades # <<>>
      /\ \A i \in 1..Len(arg_trades) : HasTimestamps(arg_trades[i])
      /\ TotalSeconds(arg_trades) > 0 )
    => DurationOf(result) = HoursMinutesSeconds(TotalSeconds(arg_trades) \div Len(arg_trades))

\* C7: Average Trade Duration is the mean over exactly the records that have
\* both timestamps, and "0h" if there is none or the mean is <= 0.
C7_DurationAveragesTimedRecords ==
    (returned /\ arg_trades # <<>>) =>
        LET timed == SelectSeq(arg_trades, HasTimestamps)
            total == TotalSeconds(timed)
        IN  DurationOf(result) =
                IF timed = <<>> \/ total <= 0 THEN "0h"
                ELSE Join(SplitFirst(TimedeltaStr(timedelta(total, Len(timed))), "."))

\* C8: for an empty record set, default is the 14 metrics in their order,
\* all 0 but Average Trade Duration = "0h", and custom is Custom ROI alone,
\* profit / balance * 100, or 0 if balance <= 0.
C8_EmptyInputMetrics ==
    (returned /\ arg_trades = <<>>) =>
        /\ IsEmptyInputMetrics(result, arg_account)
        /\ Len(result.default) = 14
        /\ Len(result.custom) = 1
        /\ (arg_account.balance = 1000 /\ arg_account.profit = 50)
              => result.custom[1].value = FFromInt(5)

C8_Witness ==
    /\ returned
    /\ arg_trades = <<>>
    /\ arg_account.balance > 0
    /\ result.custom[1].value = FFromInt(5)

\* C9: for a non-empty record set, custom is [Custom ROI, Equity to Balance
\* Ratio, Margin Level], each isCustom, and default has the 14 names of the
\* empty path in the same order, none isCustom; the last two custom metrics
\* appear only on the non-empty path.
C9_NonEmptyMetricLists ==
    returned =>
        IF arg_trades # <<>>
        THEN /\ NamesOf(result.custom) =
                    <<"Custom ROI", "Equity to Balance Ratio", "Margin Level">>
             /\ \A i \in 1..Len(result.custom) : result.custom[i].isCustom
             /\ NamesOf(result.default) = DefaultNames
             /\ NamesOf(result.default) = NamesOf(EmptyDefault)
             /\ \A i \in 1..Len(result.default) : ~result.default[i].isCustom
        ELSE \A i \in 1..Len(result.custom) :
                result.custom[i].name \notin {"Equity to Balance Ratio", "Margin Level"}

C9_Witness ==
    /\ returned
    /\ arg_trades # <<>>
    /\ Len(result.custom) = 3
    /\ result.custom[3].name = "Margin Level"

\* x + y for floats x >= y > 0, rounded as Python rounds it
FAddOrdered(x, y) ==
    LET d == x.exp - y.exp IN
    IF d <= 17
    THEN FRound(1, BAdd(BShiftLeft(x.man, d), y.man), y.exp - (Precision - 1), FALSE)
    ELSE LET low == BShiftRight(y.man, d - 3, FALSE, FALSE)
         IN  FRound(1, BAdd(BTimes(x.man, 8), low.n), x.exp - (Precision - 1) - 3,
                    low.guard \/ low.sticky)

\* x + y for floats x, y >= 0
FAdd(x, y) ==
    IF x.sgn = 0 THEN y
    ELSE IF y.sgn = 0 THEN x
    ELSE IF x.exp >= y.exp THEN FAddOrdered(x, y) ELSE FAddOrdered(y, x)

\* x < y for floats x, y >= 0
FLess(x, y) ==
    IF y.sgn = 0 THEN FALSE
    ELSE IF x.sgn = 0 THEN TRUE
    ELSE x.exp < y.exp \/ (x.exp = y.exp /\ BLess(x.man, y.man))

Hundred == FFromInt(100)
\* 100 - 2^-45 and 100 + 2^-45: two units in the last place of 100.0
HundredBelow == [Hundred EXCEPT !.man = BSub(@, BFromInt(2))]
HundredAbove == [Hundred EXCEPT !.man = BAdd(@, BFromInt(2))]

FLeq(x, y) == ~FLess(y, x)

\* Win Rate + Loss Rate, as the float sum of the two values
RateSum(metrics) == FAdd(metrics.default[3].value, metrics.default[4].value)

HasBreakEven(rows) == \E i \in 1..Len(rows) : rows[i].profit = 0

\* C10 as stated: for a non-empty record set Win Rate + Loss Rate <= 100,
\* with equality exactly when no record has profit == 0.
C10_RatesSumToHundred ==
    (returned /\ arg_trades # <<>>) =>
        /\ FLeq(RateSum(result), Hundred)
        /\ (RateSum(result) = Hundred) <=> ~HasBreakEven(arg_trades)

\* C10 amended: a record with profit == 0 is in neither subset but counts
\* in the denominator of both rates; the float sum of the rates is below
\* 100 when such a record exists and within 2^-45 of 100 when none does.
C10_RatesSumWithinRounding ==
    (returned /\ arg_trades # <<>>) =>
        LET n      == Len(arg_trades)
            wins   == Cardinality({i \in 1..n : arg_trades[i].profit > 0})
            losses == Cardinality({i \in 1..n : arg_trades[i].profit < 0})
        IN  /\ result.default[3].value = Percent(wins, n)
            /\ result.default[4].value = Percent(losses, n)
            /\ wins + losses <= n
            /\ (wins + losses = n) <=> ~HasBreakEven(arg_trades)
            /\ IF HasBreakEven(arg_trades)
               THEN FLess(RateSum(result), Hundred)
               ELSE /\ FLeq(HundredBelow, RateSum(result))
                    /\ FLeq(RateSum(result), HundredAbove)

C10_Witness ==
    /\ returned
    /\ Len(arg_trades) = 3
    /\ ~HasBreakEven(arg_trades)
    /\ RateSum(result) # Hundred
    /\ FLeq(HundredBelow, RateSum(result))

====
